---------------------------- MODULE Spec2Model ----------------------------
(***************************************************************************)
(* Model of src/src/modelling.py: class MonteCarlo.                        *)
(*                                                                         *)
(* Numbers.  Returns, noise and the Cholesky factor are integers; wealth   *)
(* values are exact rationals [num, den] (den > 0, never normalised), so   *)
(* the arithmetic of the code is followed exactly and floating-point       *)
(* rounding is not modelled.                                               *)
(* Objects.  None is the record None; a numpy array is a record            *)
(* [kind, shape, data]; the DataFrame of daily returns is represented by   *)
(* what the code reads from it: its column count, .mean(axis=0) and .cov().*)
(* Calls.  Every public method is an action; simulating_scenarios is three *)
(* actions (allocation, one loop iteration, publication) and no other      *)
(* method runs while it is in its loop.  `result` is what the last         *)
(* finished call handed to its caller: the exception raised or the value   *)
(* returned (for performance_evaluation, the printed figures).             *)
(***************************************************************************)
EXTENDS Integers, Sequences, FiniteSets, TLC

VARIABLES stocks_list, simulations, projected_days, starting_amount,
          stock_returns, final_amount, portfolio_returns,
          pc, s, local_portfolio_returns, local_final_amount,
          rpdf, synthetic_returns, result

config == <<stocks_list, simulations, projected_days, starting_amount>>
fields == <<final_amount, portfolio_returns>>
locals == <<s, local_portfolio_returns, local_final_amount, rpdf, synthetic_returns>>
vars == <<stocks_list, simulations, projected_days, starting_amount,
          stock_returns, final_amount, portfolio_returns,
          pc, s, local_portfolio_returns, local_final_amount,
          rpdf, synthetic_returns, result>>

-----------------------------------------------------------------------------
(* Bounds of the model *)

MaxAssets == 2
MaxSims == 2
MaxDays == 2

\* outcomes of one draw of the random generator
Seeds == {0, 1}
Tickers == {"PETR4", "WEGE3"}
StartingAmounts == {0, 100}
MeanValues == {0, 1}
Correlations == {0, 1}
Volatilities == {0, 1}

-----------------------------------------------------------------------------
(* Values *)

None == [kind |-> "None"]

Rat(n, d) == [num |-> n, den |-> d]
\* comparisons of rationals with positive denominators
RLeq(a, b) == IF a.den = b.den THEN a.num <= b.num ELSE a.num * b.den <= b.num * a.den
RLt(a, b) == IF a.den = b.den THEN a.num < b.num ELSE a.num * b.den < b.num * a.den
REq(a, b) == IF a.den = b.den THEN a.num = b.num ELSE a.num * b.den = b.num * a.den

RECURSIVE SumTo(_, _)
SumTo(f, n) == IF n = 0 THEN 0 ELSE SumTo(f, n - 1) + f[n]

RECURSIVE Pow(_, _)
Pow(b, e) == IF e = 0 THEN 1 ELSE b * Pow(b, e - 1)

Vector(data) == [kind |-> "ndarray", shape |-> <<Len(data)>>, data |-> data]
Matrix(rows, cols, data) == [kind |-> "ndarray", shape |-> <<rows, cols>>, data |-> data]

\* np.zeros([rows, cols]) and np.zeros(n)
Zeros2(rows, cols) == Matrix(rows, cols, [d \in 1..rows |-> [c \in 1..cols |-> Rat(0, 1)]])
Zeros1(n) == Vector([c \in 1..n |-> Rat(0, 1)])

-----------------------------------------------------------------------------
(* numpy and pandas operations used by the code *)

\* np.random.normal(size=(rows, cols)): one of the generator's outcomes
Normal(seed, rows, cols) ==
    [d \in 1..rows |-> [k \in 1..cols |->
        IF seed = 0 THEN 0 ELSE ((seed * d + 2 * k) % 3) - 1]]

\* x . y^T for integer matrices with n columns: entry [i][j] = sum_k x[i][k] * y[j][k]
MatMulT(x, y, n) ==
    [i \in DOMAIN x |-> [j \in DOMAIN y |-> SumTo([k \in 1..n |-> x[i][k] * y[j][k]], n)]]

\* a . b, the matrix product: entry [i][j] = sum_k a[i][k] * b[k][j]
InnerUntransposed(a, b, n) ==
    [i \in DOMAIN a |-> [j \in 1..n |-> SumTo([k \in 1..n |-> a[i][k] * b[k][j]], n)]]

\* np.inner(a, b) for 2-D a, b: sums over the LAST axis of both
Inner(a, b, n) == MatMulT(a, b, n)

\* the integer square root of a perfect square
ISqrt(x) == CHOOSE r \in 0..x : r * r = x

\* numpy.linalg.cholesky (LAPACK potrf, lower): column by column,
\* pivot j = a[j][j] - sum_{k<j} L[j][k]^2; the factorization fails when a
\* pivot is not positive.
RECURSIVE CholEntry(_, _, _)
CholPivot(a, j) == a[j][j] - SumTo([k \in 1..(j - 1) |-> CholEntry(a, j, k) * CholEntry(a, j, k)], j - 1)
CholEntry(a, i, j) ==
    IF i = j THEN ISqrt(CholPivot(a, j))
    ELSE IF i > j
         THEN (a[i][j] - SumTo([k \in 1..(j - 1) |-> CholEntry(a, i, k) * CholEntry(a, j, k)], j - 1))
              \div CholEntry(a, j, j)
         ELSE 0

PivotOk(x) == x > 0

RECURSIVE PositiveDefiniteUpTo(_, _)
PositiveDefiniteUpTo(a, j) ==
    IF j = 0 THEN TRUE ELSE PositiveDefiniteUpTo(a, j - 1) /\ PivotOk(CholPivot(a, j))

PositiveDefinite(a, n) == PositiveDefiniteUpTo(a, n)
Cholesky(a, n) == [i \in 1..n |-> [j \in 1..n |-> CholEntry(a, i, j)]]

\* np.cumprod over a sequence of rationals
RECURSIVE CumProdAt(_, _)
CumProdAt(x, t) ==
    IF t = 1 THEN x[1]
    ELSE LET prev == CumProdAt(x, t - 1)
         IN  Rat(prev.num * x[t].num, prev.den * x[t].den)
CumProd(x) == [t \in 1..Len(x) |-> CumProdAt(x, t)]

\* sorted copy of a sequence of rationals (ascending)
RECURSIVE Insert(_, _)
Insert(sorted, x) ==
    IF sorted = <<>> THEN <<x>>
    ELSE IF RLeq(x, Head(sorted)) THEN <<x>> \o sorted
    ELSE <<Head(sorted)>> \o Insert(Tail(sorted), x)
RECURSIVE SortRat(_)
SortRat(a) == IF a = <<>> THEN <<>> ELSE Insert(SortRat(Tail(a)), Head(a))

Unordered(a) == a

Ordered(a) == SortRat(a)

\* np.percentile(a, q), method "linear", for a non-empty 1-D array:
\* virtual index q/100 * (n - 1) into the sorted values, interpolated
\* linearly between its two neighbours.
Percentile(a, q) ==
    LET n == Len(a)
        v == Ordered(a)
        pos == q * (n - 1)
        lo == (pos \div 100) + 1
        hi == IF lo + 1 > n THEN n ELSE lo + 1
        r == pos % 100
    IN  IF v[lo].den = v[hi].den
        THEN Rat(v[lo].num * (100 - r) + v[hi].num * r, 100 * v[lo].den)
        ELSE Rat(v[lo].num * v[hi].den * (100 - r) + v[hi].num * v[lo].den * r,
                 100 * v[lo].den * v[hi].den)

-----------------------------------------------------------------------------
(* The historical returns the data provider may deliver *)

\* lower-triangular factor with diagonal sig and sub-diagonal rho
Lmat(sig, rho, n) ==
    [i \in 1..n |-> [j \in 1..n |-> IF i = j THEN sig ELSE IF i > j THEN rho ELSE 0]]
\* factor of the covariance of n identical (collinear) return series
Lcol(n) == [i \in 1..n |-> [j \in 1..n |-> IF j = 1 THEN 1 ELSE 0]]

\* covariance matrices of n series: symmetric, positive semi-definite,
\* among them the zero matrix and the singular matrix of collinear series
CovMatrices(n) ==
    {MatMulT(Lmat(sig, sig * rho, n), Lmat(sig, sig * rho, n), n) : sig \in Volatilities, rho \in Correlations}
    \cup {MatMulT(Lcol(n), Lcol(n), n)}

MeanVectors(n) == {[i \in 1..n |-> mu * i] : mu \in MeanValues}

DataFrames(n) ==
    [kind : {"DataFrame"}, cols : {n}, mean : MeanVectors(n), cov : CovMatrices(n)]

AllDataFrames == UNION {DataFrames(n) : n \in 0..MaxAssets}

Distinct(list) == Cardinality({list[i] : i \in DOMAIN list})

-----------------------------------------------------------------------------
(* Methods of MonteCarlo as functions of the object's state.  Each yields  *)
(* [raised, value]: the exception it raises ("none" when it returns) and   *)
(* the value it returns.                                                   *)

Returns(v) == [raised |-> "none", value |-> v]
Raises(e) == [raised |-> e, value |-> None]

N == Len(stocks_list)

\* lines 46-48
covariance_matrix ==
    IF stock_returns = None THEN Raises("ValueError")
    ELSE Returns(stock_returns.cov)

\* line 56: np.full(N, 1/N); 1/0 raises for an empty list
get_portfolio_weights ==
    IF N = 0 THEN Raises("ZeroDivisionError")
    ELSE Returns([i \in 1..N |-> Rat(1, N)])

\* lines 64-65: None has no .mean; the mean vector (one entry per column of
\* the table) is broadcast against a projected_days x N matrix of ones
returns_matrix ==
    IF stock_returns = None THEN Raises("AttributeError")
    ELSE IF projected_days < 0 THEN Raises("ValueError")
    ELSE IF stock_returns.cols # N /\ stock_returns.cols # 1 /\ N # 1 THEN Raises("ValueError")
    ELSE LET width == IF N = 1 THEN stock_returns.cols ELSE N
         IN  Returns([d \in 1..projected_days |-> [i \in 1..width |->
                 IF stock_returns.cols = 1 THEN stock_returns.mean[1] ELSE stock_returns.mean[i]]])

\* a factorization that coerces a matrix that is not positive definite to the zero factor
l_matrix_coerced ==
    LET cov == covariance_matrix
    IN  IF cov.raised # "none" THEN cov
        ELSE IF ~PositiveDefinite(cov.value, stock_returns.cols)
             THEN Returns([i \in 1..stock_returns.cols |-> [j \in 1..stock_returns.cols |-> 0]])
        ELSE Returns(Cholesky(cov.value, stock_returns.cols))

\* line 73
l_matrix ==
    LET cov == covariance_matrix
    IN  IF cov.raised # "none" THEN cov
        ELSE IF ~PositiveDefinite(cov.value, stock_returns.cols) THEN Raises("LinAlgError")
        ELSE Returns(Cholesky(cov.value, stock_returns.cols))

\* line 86, right operand: np.inner(rpdf, self.l_matrix()); the last axes
\* of both operands must have the same length
NoiseTimesL(noise) ==
    LET l == l_matrix
    IN  IF l.raised # "none" THEN l
        ELSE IF stock_returns.cols # N THEN Raises("ValueError")
        ELSE Returns(Inner(noise, l.value, N))

\* line 86: self.returns_matrix() + np.inner(rpdf, self.l_matrix()),
\* operands evaluated left to right
SyntheticReturns(noise) ==
    LET drift == returns_matrix
        shock == NoiseTimesL(noise)
    IN  IF drift.raised # "none" THEN drift
        ELSE IF shock.raised # "none" THEN shock
        ELSE Returns([d \in 1..projected_days |-> [i \in 1..N |->
                 drift.value[d][i] + shock.value[d][i]]])

\* line 87: np.inner(weights, synthetic_returns) + 1, one rational per day
DailyGrowth(synth) ==
    LET w == get_portfolio_weights.value
    IN  [d \in 1..projected_days |->
            Rat(SumTo([i \in 1..N |-> w[i].num * synth[d][i]], N) + N, N)]

\* np.cumsum in place of np.cumprod
RECURSIVE CumSumAt(_, _)
CumSumAt(x, t) ==
    IF t = 1 THEN x[1]
    ELSE LET prev == CumSumAt(x, t - 1)
         IN  Rat(prev.num * x[t].den + x[t].num * prev.den, prev.den * x[t].den)
CompoundSum(growth) == [t \in 1..Len(growth) |-> CumSumAt(growth, t)]

Compound(growth) == CumProd(growth)

\* line 87: np.cumprod(...) * self.starting_amount
WealthPath(synth) ==
    LET c == Compound(DailyGrowth(synth))
    IN  [t \in 1..projected_days |-> Rat(c[t].num * starting_amount, c[t].den)]

\* line 87, left side: portfolio_returns[:, col] = path
SetColumn(m, col, path) ==
    [m EXCEPT !.data = [d \in 1..m.shape[1] |-> [c \in 1..m.shape[2] |->
        IF c = col THEN path[d] ELSE m.data[d][c]]]]

\* portfolio_returns[0, col]
FirstRow(m, col) == m.data[1][col]

\* line 88, right side: portfolio_returns[-1, col]
LastRow(m, col) == m.data[m.shape[1]][col]

\* line 117: np.sum(final_amount > starting_amount) / len(final_amount) * 100
ProfitableOrEqual(amount, start) == RLeq(start, amount)
Profitable(amount, start) == RLt(start, amount)
ProfitableScenarios(fa) ==
    Rat(100 * Cardinality({i \in DOMAIN fa.data : Profitable(fa.data[i], Rat(starting_amount, 1))}),
        Len(fa.data))

-----------------------------------------------------------------------------
(* State machine *)

Idle == pc = "idle"

Outcome(op, r) == [op |-> op, raised |-> r.raised, value |-> r.value]

AssetLists == UNION {[1..n -> Tickers] : n \in 0..MaxAssets}

\* lines 18-24
Init ==
    /\ \E list \in AssetLists : stocks_list = [i \in DOMAIN list |-> list[i] \o ".SA"]
    /\ simulations \in -1..MaxSims
    /\ projected_days \in -1..MaxDays
    /\ starting_amount \in StartingAmounts
    /\ stock_returns = None
    /\ final_amount = None
    /\ portfolio_returns = None
    /\ pc = "idle"
    /\ s = 0
    /\ local_portfolio_returns = None
    /\ local_final_amount = None
    /\ rpdf = None
    /\ synthetic_returns = None
    /\ result = [op |-> "__init__", raised |-> "none", value |-> None]

\* lines 32-38: the provider delivers a table of daily returns, one column
\* per requested ticker or one per distinct ticker
PullingStockData ==
    /\ Idle
    /\ \E df \in AllDataFrames :
          /\ df.cols \in {N, Distinct(stocks_list)}
          /\ stock_returns' = df
          /\ result' = Outcome("pulling_stock_data", Returns(df))
    /\ UNCHANGED <<config, fields, pc, locals>>

\* line 35: the download fails and the exception propagates
PullingStockDataFails ==
    /\ Idle
    /\ result' = Outcome("pulling_stock_data", Raises("DownloadError"))
    /\ UNCHANGED <<config, stock_returns, fields, pc, locals>>

CallCovarianceMatrix ==
    /\ Idle
    /\ result' = Outcome("covariance_matrix", covariance_matrix)
    /\ UNCHANGED <<config, stock_returns, fields, pc, locals>>

CallGetPortfolioWeights ==
    /\ Idle
    /\ result' = Outcome("get_portfolio_weights", get_portfolio_weights)
    /\ UNCHANGED <<config, stock_returns, fields, pc, locals>>

CallReturnsMatrix ==
    /\ Idle
    /\ result' = Outcome("returns_matrix", returns_matrix)
    /\ UNCHANGED <<config, stock_returns, fields, pc, locals>>

CallLMatrix ==
    /\ Idle
    /\ result' = Outcome("l_matrix", l_matrix)
    /\ UNCHANGED <<config, stock_returns, fields, pc, locals>>

\* an exception that leaves the partial arrays in the object's fields
SimRaisePartial(e) ==
    /\ pc' = "idle"
    /\ s' = 0
    /\ portfolio_returns' = local_portfolio_returns
    /\ final_amount' = local_final_amount
    /\ local_portfolio_returns' = None
    /\ local_final_amount' = None
    /\ rpdf' = None
    /\ synthetic_returns' = None
    /\ result' = Outcome("simulating_scenarios", Raises(e))
    /\ UNCHANGED <<config, stock_returns>>

\* an exception leaves simulating_scenarios: its locals are gone
SimRaise(e) ==
    /\ pc' = "idle"
    /\ s' = 0
    /\ local_portfolio_returns' = None
    /\ local_final_amount' = None
    /\ rpdf' = None
    /\ synthetic_returns' = None
    /\ result' = Outcome("simulating_scenarios", Raises(e))
    /\ UNCHANGED <<config, stock_returns, fields>>

\* lines 81-82: np.zeros rejects a negative dimension
SimStart ==
    /\ Idle
    /\ IF simulations < 0 \/ projected_days < 0
       THEN SimRaise("ValueError")
       ELSE /\ pc' = "loop"
            /\ s' = 0
            /\ local_portfolio_returns' = Zeros2(projected_days, simulations)
            /\ local_final_amount' = Zeros1(simulations)
            /\ rpdf' = None
            /\ synthetic_returns' = None
            /\ result' = [op |-> "simulating_scenarios", raised |-> "pending", value |-> None]
            /\ UNCHANGED <<config, stock_returns, fields>>

\* lines 85-88 for scenario s + 1: the body of one loop iteration
ScenarioBody(seed) ==
    LET noise == Normal(seed, projected_days, N)
        synth == SyntheticReturns(noise)
    IN  IF synth.raised # "none" THEN SimRaise(synth.raised)
        ELSE IF get_portfolio_weights.raised # "none" THEN SimRaise(get_portfolio_weights.raised)
        ELSE IF projected_days = 0 THEN SimRaise("IndexError")
        ELSE LET m == SetColumn(local_portfolio_returns, s + 1, WealthPath(synth.value))
             IN  /\ rpdf' = noise
                 /\ synthetic_returns' = synth.value
                 /\ local_portfolio_returns' = m
                 /\ local_final_amount' =
                        [local_final_amount EXCEPT !.data[s + 1] = LastRow(m, s + 1)]
                 /\ s' = s + 1
                 /\ pc' = "loop"
                 /\ UNCHANGED <<config, stock_returns, fields, result>>

SimScenario ==
    /\ pc = "loop"
    /\ s < simulations
    /\ \E seed \in Seeds : ScenarioBody(seed)

\* lines 90-93
Publish ==
    /\ portfolio_returns' = local_portfolio_returns
    /\ final_amount' = local_final_amount
    /\ result' = Outcome("simulating_scenarios", Returns(local_portfolio_returns))

SimFinish ==
    /\ pc = "loop"
    /\ s = simulations
    /\ Publish
    /\ pc' = "idle"
    /\ s' = 0
    /\ local_portfolio_returns' = None
    /\ local_final_amount' = None
    /\ rpdf' = None
    /\ synthetic_returns' = None
    /\ UNCHANGED <<config, stock_returns>>

\* lines 99-105
plotting_scenarios ==
    IF portfolio_returns = None THEN Raises("ValueError")
    ELSE Returns(None)

PlottingScenarios ==
    /\ Idle
    /\ result' = Outcome("plotting_scenarios", plotting_scenarios)
    /\ UNCHANGED <<config, stock_returns, fields, pc, locals>>

\* a summary that reports NaN figures for an empty array
performance_evaluation_nan ==
    IF final_amount = None THEN Raises("ValueError")
    ELSE IF Len(final_amount.data) = 0
         THEN Returns([kind |-> "report", perc_99_amount |-> "nan", perc_95_amount |-> "nan",
                       median_amount |-> "nan", profitable_scenarios |-> "nan"])
    ELSE Returns([kind |-> "report",
                  perc_99_amount |-> Percentile(final_amount.data, 1),
                  perc_95_amount |-> Percentile(final_amount.data, 5),
                  median_amount |-> Percentile(final_amount.data, 50),
                  profitable_scenarios |-> ProfitableScenarios(final_amount)])

\* lines 111-127: np.percentile of an empty array raises IndexError
performance_evaluation ==
    IF final_amount = None THEN Raises("ValueError")
    ELSE IF Len(final_amount.data) = 0 THEN Raises("IndexError")
    ELSE Returns([kind |-> "report",
                  perc_99_amount |-> Percentile(final_amount.data, 1),
                  perc_95_amount |-> Percentile(final_amount.data, 5),
                  median_amount |-> Percentile(final_amount.data, 50),
                  profitable_scenarios |-> ProfitableScenarios(final_amount)])

PerformanceEvaluation ==
    /\ Idle
    /\ result' = Outcome("performance_evaluation", performance_evaluation)
    /\ UNCHANGED <<config, stock_returns, fields, pc, locals>>

Next ==
    \/ PullingStockData
    \/ PullingStockDataFails
    \/ CallCovarianceMatrix
    \/ CallGetPortfolioWeights
    \/ CallReturnsMatrix
    \/ CallLMatrix
    \/ SimStart
    \/ SimScenario
    \/ SimFinish
    \/ PlottingScenarios
    \/ PerformanceEvaluation

Spec == Init /\ [][Next]_vars

-----------------------------------------------------------------------------
(* Properties *)

\* the configuration the specification calls valid
ValidConfiguration ==
    /\ simulations > 0
    /\ projected_days > 0
    /\ starting_amount > 0
    /\ N > 0
    /\ Distinct(stocks_list) = N

SimulationReturned == result.op = "simulating_scenarios" /\ result.raised = "none"
SimulationRaised == result.op = "simulating_scenarios" /\ result.raised \notin {"none", "pending"}
Reported == result.op = "performance_evaluation" /\ result.raised = "none"
ScenarioDone == pc = "loop" /\ s >= 1

\* the numerator of prod_{k = 1..t} (1 + (sum_i synth[k][i]) / N), over N^t
RECURSIVE GrowthProduct(_, _)
GrowthProduct(synth, t) ==
    IF t = 0 THEN 1 ELSE GrowthProduct(synth, t - 1) * (N + SumTo(synth[t], N))

\* C1: right after scenario s has run, row t of column s of the wealth
\* matrix is starting_amount times the product over days 1..t of
\* (1 + that day's equally weighted portfolio return), for every t in 1..D.
C1_RunningProduct ==
    ScenarioDone =>
        \A t \in 1..projected_days :
            REq(local_portfolio_returns.data[t][s],
                Rat(starting_amount * GrowthProduct(synthetic_returns, t), Pow(N, t)))

C1_Witness ==
    /\ ScenarioDone
    /\ projected_days >= 2
    /\ N >= 2
    /\ starting_amount > 0
    /\ ~REq(local_portfolio_returns.data[1][s], Rat(starting_amount, 1))
    /\ ~REq(local_portfolio_returns.data[2][s], local_portfolio_returns.data[1][s])

PublishedShape ==
    portfolio_returns # None =>
        /\ portfolio_returns.shape = <<projected_days, simulations>>
        /\ Len(portfolio_returns.data) = projected_days
        /\ \A d \in 1..projected_days : Len(portfolio_returns.data[d]) = simulations
        /\ final_amount # None
        /\ final_amount.shape = <<simulations>>
        /\ Len(final_amount.data) = simulations
        /\ projected_days >= 1 =>
              \A c \in 1..simulations :
                  final_amount.data[c] = portfolio_returns.data[projected_days][c]

OnlyOwnColumn ==
    (pc = "loop" /\ pc' = "loop") =>
        /\ s' = s + 1
        /\ \A c \in 1..simulations : c # s' =>
              /\ local_final_amount'.data[c] = local_final_amount.data[c]
              /\ \A d \in 1..projected_days :
                    local_portfolio_returns'.data[d][c] = local_portfolio_returns.data[d][c]

\* C2: a published result has D rows and S columns, final_amount has S
\* entries, each the day-D row of its column, and the iteration for
\* scenario s changes column s only.
C2_ShapeAndColumns == [][PublishedShape' /\ OnlyOwnColumn]_vars

C2_Witness ==
    /\ SimulationReturned
    /\ simulations = 2
    /\ projected_days = 2
    /\ portfolio_returns.data[1][1] # portfolio_returns.data[2][1]
    /\ portfolio_returns.data[2][1] # portfolio_returns.data[2][2]

AllBreakEven ==
    \A i \in 1..simulations : REq(final_amount.data[i], Rat(starting_amount, 1))

\* C3: the reported percentage is 100 * #{scenarios with final_amount
\* strictly above starting_amount} / S; it is 0 when every terminal wealth
\* equals starting_amount.
C3_StrictlyGreater ==
    Reported =>
        LET share == result.value.profitable_scenarios
            above == {i \in 1..simulations :
                        final_amount.data[i].num > starting_amount * final_amount.data[i].den}
        IN  /\ share.num * simulations = 100 * Cardinality(above) * share.den
            /\ AllBreakEven => share.num = 0

C3_Witness ==
    /\ Reported
    /\ ValidConfiguration
    /\ simulations >= 2
    /\ AllBreakEven

ZeroVolatility ==
    /\ stock_returns # None
    /\ stock_returns.cols = N
    /\ N >= 1
    /\ simulations >= 1
    /\ projected_days >= 1
    /\ \A i, j \in 1..N : stock_returns.cov[i][j] = 0

\* C4 as claimed, for a valid configuration: with an all-zero covariance
\* matrix simulating_scenarios completes, every synthetic return being the
\* mean return.
C4_ZeroVolatilityCompletes ==
    /\ (ValidConfiguration /\ ZeroVolatility
        /\ result.op = "simulating_scenarios" /\ result.raised # "pending")
          => result.raised = "none"
    /\ (ValidConfiguration /\ ZeroVolatility /\ ScenarioDone)
          => \A d \in 1..projected_days : \A i \in 1..N :
                 synthetic_returns[d][i] = stock_returns.mean[i]

ZeroVolatilityState ==
    /\ (ZeroVolatility /\ pc = "loop") => (s = 0 /\ synthetic_returns = None)
    /\ (ZeroVolatility /\ result.op = "simulating_scenarios" /\ result.raised # "pending")
          => (result.raised = "LinAlgError" /\ result.value = None)

\* C4 amended: with an all-zero covariance matrix (one column per asset,
\* S >= 1, D >= 1) no scenario of simulating_scenarios completes: the
\* factorization raises LinAlgError in the first scenario, no synthetic
\* return is computed and the published fields keep their values.
C4_ZeroVolatilityRaises ==
    [][ZeroVolatilityState' /\ (ZeroVolatility => UNCHANGED fields)]_vars

C4_Witness ==
    /\ ZeroVolatility
    /\ ValidConfiguration
    /\ N = 1
    /\ stock_returns.mean[1] = 0
    /\ SimulationRaised

\* C5: an invalid configuration never yields a simulation result or a summary.
C5_InvalidConfigurationRejected ==
    ~ValidConfiguration => (portfolio_returns = None /\ final_amount = None /\ ~Reported)

NothingToSummarize == final_amount = None \/ Len(final_amount.data) = 0

\* C6: performance_evaluation raises and reports nothing when there is no
\* terminal wealth value: before any completed run and after a run with S = 0.
C6_NothingToSummarize ==
    (result.op = "performance_evaluation" /\ NothingToSummarize)
        => (result.raised # "none" /\ result.value = None)

C6_Witness ==
    /\ result.op = "performance_evaluation"
    /\ final_amount # None
    /\ simulations = 0
    /\ result.raised = "IndexError"

\* C7: portfolio_returns and final_amount are both None or both set; they
\* change only when a run in which all S scenarios wrote their column
\* returns, and a run that raises returns nothing and leaves them as they were.
C7_PublishedOnlyByCompleteRun ==
    [][ /\ (portfolio_returns' = None) <=> (final_amount' = None)
        /\ (fields' # fields) =>
              /\ pc = "loop"
              /\ s = simulations
              /\ portfolio_returns' = local_portfolio_returns
              /\ final_amount' = local_final_amount
              /\ SimulationReturned'
        /\ SimulationRaised' => (fields' = fields /\ result'.value = None)
      ]_vars

C7_Witness ==
    /\ SimulationRaised
    /\ result.raised = "LinAlgError"
    /\ portfolio_returns # None
    /\ simulations >= 2

Smallest(a) == CHOOSE x \in {a[i] : i \in DOMAIN a} : \A i \in DOMAIN a : RLeq(x, a[i])
Largest(a) == CHOOSE x \in {a[i] : i \in DOMAIN a} : \A i \in DOMAIN a : RLeq(a[i], x)

\* lo + q/100 * (hi - lo)
Between(p, lo, hi, q) ==
    IF lo.den = hi.den /\ p.den = 100 * lo.den
    THEN p.num = (100 - q) * lo.num + q * hi.num
    ELSE 100 * p.num * lo.den * hi.den
            = ((100 - q) * lo.num * hi.den + q * hi.num * lo.den) * p.den

\* C8: the reported percentiles are ordered, 1st <= 5th <= 50th, and
\* interpolate linearly between the order statistics (for two values,
\* min + q/100 * (max - min)).
C8_PercentilesOrdered ==
    Reported =>
        LET p1 == result.value.perc_99_amount
            p5 == result.value.perc_95_amount
            p50 == result.value.median_amount
            lo == Smallest(final_amount.data)
            hi == Largest(final_amount.data)
        IN  /\ RLeq(p1, p5)
            /\ RLeq(p5, p50)
            /\ RLeq(lo, p1)
            /\ RLeq(p50, hi)
            /\ simulations = 2 =>
                  /\ Between(p1, lo, hi, 1)
                  /\ Between(p5, lo, hi, 5)
                  /\ Between(p50, lo, hi, 50)

C8_Witness ==
    /\ Reported
    /\ simulations >= 2
    /\ RLt(final_amount.data[2], final_amount.data[1])
    /\ RLt(result.value.perc_99_amount, result.value.perc_95_amount)
    /\ RLt(result.value.perc_95_amount, result.value.median_amount)

LowerTriangularFactor(l, cov, n) ==
    /\ \A i, j \in 1..n : i < j => l[i][j] = 0
    /\ \A i, j \in 1..n : SumTo([k \in 1..n |-> l[i][k] * l[j][k]], n) = cov[i][j]

\* mean_i + sum_k noise[d][k] * l[i][k]
DriftPlusNoiseLT(noise, l) ==
    [d \in 1..projected_days |-> [i \in 1..N |->
        stock_returns.mean[i] + SumTo([k \in 1..N |-> noise[d][k] * l[i][k]], N)]]

\* column c is the wealth path of some draw under the given factor
ColumnFromFactor(c, l) ==
    \E seed \in Seeds :
        LET synth == DriftPlusNoiseLT(Normal(seed, projected_days, N), l)
        IN  \A t \in 1..projected_days :
                REq(local_portfolio_returns.data[t][c],
                    Rat(starting_amount * GrowthProduct(synth, t), Pow(N, t)))

\* C9: synthetic_returns[d][i] = mean_i + sum_k noise[d][k] * L[i][k] with
\* L the lower-triangular factor of the covariance matrix, and the mean
\* vector and the factor of the current state account for every column
\* written so far: all scenarios of a run used the same drift and L.
C9_DriftPlusNoiseTimesLT ==
    ScenarioDone =>
        LET l == l_matrix
        IN  /\ l.raised = "none"
            /\ LowerTriangularFactor(l.value, stock_returns.cov, N)
            /\ synthetic_returns = DriftPlusNoiseLT(rpdf, l.value)
            /\ \A c \in 1..s : ColumnFromFactor(c, l.value)

C9_Witness ==
    /\ ScenarioDone
    /\ N = 2
    /\ l_matrix.value[2][1] # 0
    /\ rpdf[1][1] # rpdf[1][2]
    /\ s = 2

\* C10, for a valid configuration: a method called before the step it
\* depends on raises ValueError.
C10_ValueErrorBeforePrerequisite ==
    ValidConfiguration =>
        /\ (stock_returns = None /\ result.raised # "pending"
            /\ result.op \in {"covariance_matrix", "l_matrix", "simulating_scenarios"})
              => result.raised = "ValueError"
        /\ (portfolio_returns = None
            /\ result.op \in {"plotting_scenarios", "performance_evaluation"})
              => result.raised = "ValueError"

=============================================================================
